---------------------------- MODULE Spec2Model ----------------------------
(***************************************************************************)
(* A model of the configuration-to-TOML converter of src/main.go.          *)
(*                                                                         *)
(* Text is modelled byte by byte: a Go string is a sequence of one-byte    *)
(* strings ("A", " ", "\n", ...), so that prefix/suffix tests, splitting,  *)
(* trimming, number parsing and formatting are computed as the code        *)
(* computes them.  A value held in Parser.variables is a tagged record:    *)
(*   [t |-> "int", n |-> n]      an int                                    *)
(*   [t |-> "string", s |-> s]   a string                                  *)
(*   [t |-> "array", a |-> a]    a []string                                *)
(* Integers are TLC integers: the numerals of the bounded inputs stay far  *)
(* below the 64-bit range, so no overflow of int is reachable.             *)
(***************************************************************************)
EXTENDS Integers, Sequences, FiniteSets, TLC

VARIABLES variables, pc, pending, input, content, lines, output, file, err,
          declared, results

vars == <<variables, pc, pending, input, content, lines, output, file, err,
          declared, results>>

(***************************************************************************)
(* Bytes                                                                   *)
(***************************************************************************)

\* The printable ASCII table, from byte 32 (space) to byte 126 (~).  Byte 96 has
\* no TLA+ string literal and is named "GRAVE".
Printable ==
  << " ", "!", "\"", "#", "$", "%", "&", "'", "(", ")", "*", "+", ",", "-", ".", "/",
     "0", "1", "2", "3", "4", "5", "6", "7", "8", "9", ":", ";", "<", "=", ">", "?",
     "@", "A", "B", "C", "D", "E", "F", "G", "H", "I", "J", "K", "L", "M", "N", "O",
     "P", "Q", "R", "S", "T", "U", "V", "W", "X", "Y", "Z", "[", "\\", "]", "^", "_",
     "GRAVE", "a", "b", "c", "d", "e", "f", "g", "h", "i", "j", "k", "l", "m", "n", "o",
     "p", "q", "r", "s", "t", "u", "v", "w", "x", "y", "z", "{", "|", "}", "~" >>

\* The numeric value of a byte (what int(str[0]) and a rune comparison see).
Code(c) ==
  CASE c = "\t" -> 9
    [] c = "\n" -> 10
    [] c = "\f" -> 12
    [] c = "\r" -> 13
    [] OTHER -> 31 + (CHOOSE i \in 1..Len(Printable) : Printable[i] = c)

\* unicode.IsSpace on the ASCII range, as strings.TrimSpace and strings.Fields use it
\* (\v has no TLA+ escape and is not part of any input).
IsSpace(c) == c \in {" ", "\t", "\n", "\r", "\f"}

(***************************************************************************)
(* package strings                                                         *)
(***************************************************************************)

HasPrefix(s, p) == Len(s) >= Len(p) /\ SubSeq(s, 1, Len(p)) = p

HasSuffix(s, p) == Len(s) >= Len(p) /\ SubSeq(s, Len(s) - Len(p) + 1, Len(s)) = p

TrimPrefix(s, p) == IF HasPrefix(s, p) THEN SubSeq(s, Len(p) + 1, Len(s)) ELSE s

TrimSuffix(s, p) == IF HasSuffix(s, p) THEN SubSeq(s, 1, Len(s) - Len(p)) ELSE s

\* strings.Index, 1-based; 0 when sep does not occur.
Index(s, sep) ==
  LET hits == {i \in 1..(Len(s) - Len(sep) + 1) : SubSeq(s, i, i + Len(sep) - 1) = sep}
  IN  IF hits = {} THEN 0 ELSE CHOOSE i \in hits : \A j \in hits : i <= j

Contains(s, sep) == Index(s, sep) # 0

\* strings.Split(s, sep) for a non-empty sep.
RECURSIVE Split(_, _)
Split(s, sep) ==
  LET i == Index(s, sep)
  IN  IF i = 0 THEN <<s>>
      ELSE <<SubSeq(s, 1, i - 1)>> \o Split(SubSeq(s, i + Len(sep), Len(s)), sep)

\* strings.SplitN(s, sep, 2).
SplitN2(s, sep) ==
  LET i == Index(s, sep)
  IN  IF i = 0 THEN <<s>>
      ELSE <<SubSeq(s, 1, i - 1), SubSeq(s, i + Len(sep), Len(s))>>

TrimSpace(s) ==
  LET keep == {i \in 1..Len(s) : ~IsSpace(s[i])}
  IN  IF keep = {} THEN <<>>
      ELSE SubSeq(s, CHOOSE i \in keep : \A j \in keep : i <= j,
                     CHOOSE i \in keep : \A j \in keep : i >= j)

\* strings.Fields: the maximal runs of non-space bytes.
RECURSIVE Fields(_)
Fields(s) ==
  LET keep == {i \in 1..Len(s) : ~IsSpace(s[i])}
  IN  IF keep = {} THEN <<>>
      ELSE LET a == CHOOSE i \in keep : \A j \in keep : i <= j
               stops == {i \in a..Len(s) : IsSpace(s[i])}
               b == IF stops = {} THEN Len(s) + 1
                    ELSE CHOOSE i \in stops : \A j \in stops : i <= j
           IN  <<SubSeq(s, a, b - 1)>> \o Fields(SubSeq(s, b, Len(s)))

\* strings.Join, used here to build texts from lines.
RECURSIVE Join(_, _)
Join(ss, sep) ==
  IF ss = <<>> THEN <<>>
  ELSE IF Len(ss) = 1 THEN ss[1]
  ELSE ss[1] \o sep \o Join(Tail(ss), sep)

(***************************************************************************)
(* package strconv / fmt                                                   *)
(***************************************************************************)

Digits == <<"0", "1", "2", "3", "4", "5", "6", "7", "8", "9">>

DigitVal(c) == Code(c) - 48

RECURSIVE DigitsValue(_, _, _)
DigitsValue(s, base, acc) ==
  IF s = <<>> THEN acc ELSE DigitsValue(Tail(s), base, acc * base + DigitVal(s[1]))

\* strconv.ParseInt(s, base, 64) for base 8 or 10: an optional sign, then at
\* least one digit of the base and nothing else.  [ok, v]; ok is err == nil.
ParseInt(s, base) ==
  LET neg  == s # <<>> /\ s[1] = "-"
      body == IF s # <<>> /\ s[1] \in {"+", "-"} THEN Tail(s) ELSE s
      good == /\ body # <<>>
              /\ \A i \in 1..Len(body) :
                   /\ Code(body[i]) >= 48
                   /\ Code(body[i]) < 48 + base
  IN  IF ~good THEN [ok |-> FALSE, v |-> 0]
      ELSE [ok |-> TRUE,
            v  |-> IF neg THEN 0 - DigitsValue(body, base, 0)
                   ELSE DigitsValue(body, base, 0)]

Atoi(s) == ParseInt(s, 10)

RECURSIVE NatToStr(_)
NatToStr(n) ==
  IF n < 10 THEN <<Digits[n + 1]>> ELSE NatToStr(n \div 10) \o <<Digits[(n % 10) + 1]>>

\* fmt.Sprintf("%d", n).
Itoa(n) == IF n < 0 THEN <<"-">> \o NatToStr(0 - n) ELSE NatToStr(n)

(***************************************************************************)
(* Values, errors and the symbol table                                     *)
(***************************************************************************)

IntV(n) == [t |-> "int", n |-> n]
StrV(s) == [t |-> "string", s |-> s]
ArrV(a) == [t |-> "array", a |-> a]

\* The nil error, and the errors the code returns.
Nil == "nil"
ErrInvalidSyntax == "ErrInvalidSyntax"
ErrInvalidExpression == "ErrInvalidExpression"
ErrInvalidName == "invalid variable name"
ErrUnknownOperation == "unknown operation"
ErrNotANumber == "variable is not a number"
ErrNotAString == "variable is not a string"
ErrUnsupportedType == "unsupported variable type"
ErrOrdEmpty == "ord: empty string"
ErrStrconv == "strconv syntax error"

\* make(map[string]interface{}): the map with no key.
EmptyMap == [k \in {} |-> 0]

\* Put that leaves a key that is already bound alone.
Put_keepFirst(m, k, v) == IF k \in DOMAIN m THEN m ELSE [x \in (DOMAIN m) \cup {k} |-> IF x = k THEN v ELSE m[x]]

\* m[k] = v.
Put(m, k, v) == [x \in (DOMAIN m) \cup {k} |-> IF x = k THEN v ELSE m[x]]

\* The literal byte strings the code tests for.
ASSIGN == <<":", "=">>
SEMI == <<";">>
EQ == <<"=">>
COMMA == <<",">>
SLASHES == <<"/", "/">>
LBRACKET == <<"[">>
RBRACKET == <<"]">>
EXPROPEN == <<"?", "(">>
RPAREN == <<")">>
ATQUOTE == <<"@", "\"">>
QUOTE == <<"\"">>
COMMENTOPEN == <<"{", "-">>
COMMENTCLOSE == <<"-", "}">>
NEWLINE == <<"\n">>
TRUETEXT == <<"t", "r", "u", "e">>
FALSETEXT == <<"f", "a", "l", "s", "e">>

(***************************************************************************)
(* Parser methods                                                          *)
(***************************************************************************)

\* isValidName with the upper bound of the letter range off by one.
isValidName_offByOne(s) ==
  /\ s # <<>>
  /\ \A i \in 1..Len(s) : ~(~(Code(s[i]) >= 65 /\ Code(s[i]) <= 91) /\ s[i] # "_")

isValidName(s) ==
  /\ s # <<>>
  /\ \A i \in 1..Len(s) : ~(~(Code(s[i]) >= 65 /\ Code(s[i]) <= 90) /\ s[i] # "_")

IsOctalLiteral(s) == HasPrefix(s, <<"0", "o">>) \/ HasPrefix(s, <<"0", "O">>)

isNumber(s) ==
  IF IsOctalLiteral(s) THEN ParseInt(SubSeq(s, 3, Len(s)), 8).ok ELSE Atoi(s).ok

\* [err, val]: val is the int.
parseNumber(s) ==
  LET r == IF IsOctalLiteral(s) THEN ParseInt(SubSeq(s, 3, Len(s)), 8) ELSE Atoi(s)
  IN  [err |-> IF r.ok THEN Nil ELSE ErrStrconv, val |-> r.v]

\* fmt.Sprintf("%v", x) of an int, a string or a []string.
SprintV(x) ==
  CASE x.t = "int" -> Itoa(x.n)
    [] x.t = "string" -> x.s
    [] x.t = "array" -> <<"[">> \o Join(x.a, <<" ">>) \o <<"]">>

\* [err, val]: val is the value record.
resolveValue(vs, valueStr) ==
  IF valueStr \in DOMAIN vs THEN [err |-> Nil, val |-> vs[valueStr]]
  ELSE IF isNumber(valueStr)
    THEN LET r == parseNumber(valueStr) IN [err |-> r.err, val |-> IntV(r.val)]
  ELSE IF HasPrefix(valueStr, ATQUOTE) /\ HasSuffix(valueStr, QUOTE)
    THEN [err |-> Nil, val |-> StrV(TrimSuffix(TrimPrefix(valueStr, ATQUOTE), QUOTE))]
  ELSE [err |-> Nil, val |-> StrV(valueStr)]

\* The loop over the comma-separated elements of an array (in handleConstant and
\* in Parse): [err, val], val the []string built up to the first error.
RECURSIVE resolveElements(_, _, _)
resolveElements(vs, values, array) ==
  IF values = <<>> THEN [err |-> Nil, val |-> array]
  ELSE LET v == TrimSpace(Head(values))
       IN  IF v = <<>> THEN resolveElements(vs, Tail(values), array)
           ELSE LET r == resolveValue(vs, v)
                IN  IF r.err # Nil THEN [err |-> r.err, val |-> array]
                    ELSE resolveElements(vs, Tail(values), Append(array, SprintV(r.val)))

\* [err, val]: val is the int.
getNumberValue(vs, token) ==
  IF token \in DOMAIN vs
  THEN CASE vs[token].t = "int" -> [err |-> Nil, val |-> vs[token].n]
         [] vs[token].t = "string" -> [err |-> ErrNotANumber, val |-> 0]
         [] OTHER -> [err |-> ErrUnsupportedType, val |-> 0]
  ELSE parseNumber(token)

\* [err, val]: val is the string.
getStringValue(vs, token) ==
  IF token \in DOMAIN vs
  THEN CASE vs[token].t = "string" -> [err |-> Nil, val |-> vs[token].s]
         [] vs[token].t = "int" -> [err |-> ErrNotAString, val |-> <<>>]
         [] OTHER -> [err |-> ErrUnsupportedType, val |-> <<>>]
  ELSE IF HasPrefix(token, ATQUOTE) /\ HasSuffix(token, QUOTE)
    THEN [err |-> Nil, val |-> TrimSuffix(TrimPrefix(token, ATQUOTE), QUOTE)]
  ELSE [err |-> Nil, val |-> token]

\* ordOf taking the first byte of the operand as it is.
ordOf_noStrip(str) ==
  IF Len(str) = 0 THEN [err |-> ErrOrdEmpty, val |-> 0]
  ELSE [err |-> Nil, val |-> Code(str[1])]

\* The "ord" case once its operand is resolved: [err, val].
ordOf(str) ==
  IF Len(str) = 0 THEN [err |-> ErrOrdEmpty, val |-> 0]
  ELSE LET s == IF HasPrefix(str, QUOTE) /\ HasSuffix(str, QUOTE)
                THEN TrimSuffix(TrimPrefix(str, QUOTE), QUOTE) ELSE str
       IN  IF Len(s) = 0 THEN [err |-> ErrOrdEmpty, val |-> 0]
           ELSE [err |-> Nil, val |-> Code(s[1])]

\* The "+" and "-" cases: sign is 1 or -1.
binaryOp(vs, tokens, sign) ==
  IF Len(tokens) # 3 THEN [err |-> ErrInvalidExpression, val |-> 0]
  ELSE LET a == getNumberValue(vs, tokens[2])
       IN  IF a.err # Nil THEN [err |-> a.err, val |-> 0]
           ELSE LET b == getNumberValue(vs, tokens[3])
                IN  IF b.err # Nil THEN [err |-> b.err, val |-> 0]
                    ELSE [err |-> Nil, val |-> a.val + sign * b.val]

\* [err, val]: val is the int.
evaluateExpression(vs, expr) ==
  LET tokens == Fields(expr)
  IN  IF Len(tokens) < 2 THEN [err |-> ErrInvalidExpression, val |-> 0]
      ELSE CASE tokens[1] = <<"+">> -> binaryOp(vs, tokens, 1)
             [] tokens[1] = <<"-">> -> binaryOp(vs, tokens, -1)
             [] tokens[1] = <<"o", "r", "d">> ->
                  IF Len(tokens) # 2 THEN [err |-> ErrInvalidExpression, val |-> 0]
                  ELSE LET str == getStringValue(vs, tokens[2])
                       IN  IF str.err # Nil THEN [err |-> str.err, val |-> 0]
                           ELSE ordOf(str.val)
             [] tokens[1] = <<"a", "b", "s">> ->
                  IF Len(tokens) # 2 THEN [err |-> ErrInvalidExpression, val |-> 0]
                  ELSE LET n == getNumberValue(vs, tokens[2])
                       IN  IF n.err # Nil THEN [err |-> n.err, val |-> 0]
                           ELSE [err |-> Nil, val |-> IF n.val < 0 THEN 0 - n.val ELSE n.val]
             [] OTHER -> [err |-> ErrUnknownOperation, val |-> 0]

\* aliasValue that never looks the token up.
aliasValue_opaque(vs, valueStr) == StrV(valueStr)

\* The last two cases of handleConstant: the value of the variable the token
\* names, or else the token itself as a string.
aliasValue(vs, valueStr) ==
  IF valueStr \in DOMAIN vs THEN vs[valueStr] ELSE StrV(valueStr)

\* The value a declaration whose name is valid binds: [err, val].
constantValue(vs, valueStr) ==
  IF HasPrefix(valueStr, EXPROPEN) /\ HasSuffix(valueStr, RPAREN)
    THEN LET r == evaluateExpression(vs, TrimSuffix(TrimPrefix(valueStr, EXPROPEN), RPAREN))
         IN  [err |-> r.err, val |-> IntV(r.val)]
  ELSE IF HasPrefix(valueStr, LBRACKET) /\ HasSuffix(valueStr, RBRACKET)
    THEN LET r == resolveElements(vs,
                    Split(TrimSuffix(TrimPrefix(valueStr, LBRACKET), RBRACKET), COMMA), <<>>)
         IN  [err |-> r.err, val |-> ArrV(r.val)]
  ELSE IF HasPrefix(valueStr, ATQUOTE) /\ HasSuffix(valueStr, QUOTE)
    THEN [err |-> Nil, val |-> StrV(TrimSuffix(TrimPrefix(valueStr, ATQUOTE), QUOTE))]
  ELSE IF isNumber(valueStr)
    THEN LET r == parseNumber(valueStr) IN [err |-> r.err, val |-> IntV(r.val)]
  ELSE [err |-> Nil, val |-> aliasValue(vs, valueStr)]

\* [err, variables]: the symbol table after the declaration line.
handleConstant(vs, line) ==
  LET parts == Split(TrimSuffix(line, SEMI), ASSIGN)
  IN  IF Len(parts) # 2 THEN [err |-> ErrInvalidSyntax, variables |-> vs]
      ELSE LET name == TrimSpace(parts[1])
               valueStr == TrimSpace(parts[2])
           IN  IF ~isValidName(name) THEN [err |-> ErrInvalidName, variables |-> vs]
               ELSE LET r == constantValue(vs, valueStr)
                    IN  IF r.err # Nil THEN [err |-> r.err, variables |-> vs]
                        ELSE [err |-> Nil, variables |-> Put(vs, name, r.val)]

\* One element of an emitted array: bare when strconv.Atoi accepts it or it is
\* true/false, double-quoted otherwise.
formatItem(item) ==
  IF ~Atoi(item).ok /\ item # TRUETEXT /\ item # FALSETEXT
  THEN QUOTE \o item \o QUOTE ELSE item

RECURSIVE formatItems(_, _)
formatItems(a, i) ==
  IF i > Len(a) THEN <<>>
  ELSE (IF i > 1 THEN <<",", " ">> ELSE <<>>) \o formatItem(a[i]) \o formatItems(a, i + 1)

\* The type switch of handleKeyValue: the TOML text of a value.
formatValue(value) ==
  CASE value.t = "string" ->
         IF value.s = TRUETEXT \/ value.s = FALSETEXT THEN value.s
         ELSE QUOTE \o value.s \o QUOTE
    [] value.t = "int" -> Itoa(value.n)
    [] value.t = "array" -> <<"[">> \o formatItems(value.a, 1) \o <<"]">>

\* [err, output]: the buffer after the key-value line.
handleKeyValue(vs, out, line) ==
  LET parts == SplitN2(line, EQ)
  IN  IF Len(parts) # 2 THEN [err |-> ErrInvalidSyntax, output |-> out]
      ELSE LET key == TrimSpace(parts[1])
               r == resolveValue(vs, TrimSpace(parts[2]))
           IN  IF r.err # Nil THEN [err |-> r.err, output |-> out]
               ELSE [err |-> Nil,
                     output |-> out \o key \o <<" ", "=", " ">> \o formatValue(r.val) \o NEWLINE]

\* removeMultilineComments with a {- that no -} follows removing the rest of
\* the text.
RECURSIVE removeMultilineComments_toEnd(_)
removeMultilineComments_toEnd(text) ==
  LET i == Index(text, COMMENTOPEN)
  IN  IF i = 0 THEN text
      ELSE LET rest == SubSeq(text, i + 2, Len(text))
               j == Index(rest, COMMENTCLOSE)
           IN  IF j = 0 THEN SubSeq(text, 1, i - 1)
               ELSE SubSeq(text, 1, i - 1)
                      \o removeMultilineComments_toEnd(SubSeq(rest, j + 2, Len(rest)))

\* regexp \{-[\s\S]*?-\} replaced by nothing: the leftmost {- that a -} follows,
\* up to the first such -}, again and again.
RECURSIVE removeMultilineComments(_)
removeMultilineComments(text) ==
  LET i == Index(text, COMMENTOPEN)
  IN  IF i = 0 THEN text
      ELSE LET rest == SubSeq(text, i + 2, Len(text))
               j == Index(rest, COMMENTCLOSE)
           IN  IF j = 0 THEN text
               ELSE SubSeq(text, 1, i - 1)
                      \o removeMultilineComments(SubSeq(rest, j + 2, Len(rest)))

(***************************************************************************)
(* Parser.Parse as a state machine                                         *)
(*                                                                         *)
(*   variables  Parser.variables, kept by the Parser between Parse calls   *)
(*   pc         "idle" (no Parse call running) or "loop" (in the for loop) *)
(*   pending    the input texts of the Parse calls still to be made        *)
(*   input      the text ReadFile returned to the current (or last) call   *)
(*   content    that text without its block comments                       *)
(*   lines      the lines the loop has not processed yet                   *)
(*   output     the strings.Builder                                        *)
(*   file       the file at outputPath, a path of this call's own          *)
(*   err        what the last call returned ("none": no call yet;          *)
(*              "running": the call has not returned)                      *)
(*   declared   history: per constant, the VALUE text of the latest        *)
(*              declaration that bound it                                  *)
(*   results    history: [input, err, file] of every call that returned    *)
(***************************************************************************)

Unwritten == [written |-> FALSE, data |-> <<>>]
Written(data) == [written |-> TRUE, data |-> data]

\* The trimmed line the loop body works on.
CurLine == TrimSpace(Head(lines))

IsSkippedLine(line) == line = <<>> \/ HasPrefix(line, SLASHES)

IsConstantLine(line) ==
  /\ ~IsSkippedLine(line)
  /\ Contains(line, ASSIGN) /\ HasSuffix(line, SEMI)

IsBracketLine(line) ==
  /\ ~IsSkippedLine(line) /\ ~IsConstantLine(line)
  /\ HasPrefix(line, LBRACKET) /\ HasSuffix(line, RBRACKET)

\* The text between the brackets of a bracket line.
Inner(line) == TrimSpace(TrimSuffix(TrimPrefix(line, LBRACKET), RBRACKET))

IsAnonymousArrayLine(line) ==
  /\ IsBracketLine(line)
  /\ Contains(Inner(line), COMMA) /\ ~Contains(Inner(line), EQ)

IsSectionLine(line) == IsBracketLine(line) /\ ~IsAnonymousArrayLine(line)

IsKeyValueLine(line) ==
  /\ ~IsSkippedLine(line) /\ ~IsConstantLine(line) /\ ~IsBracketLine(line)
  /\ Contains(line, EQ) /\ ~Contains(line, ASSIGN)

IsDroppedLine(line) ==
  /\ ~IsSkippedLine(line) /\ ~IsConstantLine(line) /\ ~IsBracketLine(line)
  /\ ~IsKeyValueLine(line)

\* writeSection with the header put in front of the buffer.
writeSection_prepend(out, inner) == LBRACKET \o inner \o RBRACKET \o NEWLINE \o out

\* output.WriteString(fmt.Sprintf("[%s]\n", inner)).
writeSection(out, inner) == out \o LBRACKET \o inner \o RBRACKET \o NEWLINE

\* fmt.Sprintf("_array_%d", n).
ArrayName(n) == <<"_", "a", "r", "r", "a", "y", "_">> \o Itoa(n)

\* NAME and VALUE of a declaration line, as handleConstant cuts them.
DeclName(line) == TrimSpace(Split(TrimSuffix(line, SEMI), ASSIGN)[1])
DeclValue(line) == TrimSpace(Split(TrimSuffix(line, SEMI), ASSIGN)[2])

\* Abort with the buffer flushed to outputPath on the way out.
Abort_flush(e) ==
  /\ pc' = "idle"
  /\ err' = e
  /\ file' = Written(output)
  /\ results' = results \cup {[input |-> input, err |-> e, file |-> file']}
  /\ UNCHANGED <<pending, input, content, lines, output>>

\* return err, out of the loop: nothing is written.
Abort(e) ==
  /\ pc' = "idle"
  /\ err' = e
  /\ file' = file
  /\ results' = results \cup {[input |-> input, err |-> e, file |-> file]}
  /\ UNCHANGED <<pending, input, content, lines, output>>

\* The next iteration of the loop.
Continue ==
  /\ lines' = Tail(lines)
  /\ UNCHANGED <<pc, pending, input, content, file, err, results>>

\* NewParser(): the caller goes on with a fresh Parser.
NewParser ==
  /\ pc = "idle"
  /\ variables' = EmptyMap
  /\ declared' = EmptyMap
  /\ UNCHANGED <<pc, pending, input, content, lines, output, file, err, results>>

\* Parse up to the loop: the file is read, its block comments are removed, the
\* rest is split into lines.
ParseBegin ==
  /\ pc = "idle"
  /\ pending # <<>>
  /\ input' = Head(pending)
  /\ pending' = Tail(pending)
  /\ content' = removeMultilineComments(input')
  /\ lines' = Split(content', NEWLINE)
  /\ output' = <<>>
  /\ file' = Unwritten
  /\ err' = "running"
  /\ pc' = "loop"
  /\ UNCHANGED <<variables, declared, results>>

\* A blank line or a // line.
SkipLine ==
  /\ pc = "loop" /\ lines # <<>>
  /\ IsSkippedLine(CurLine)
  /\ Continue
  /\ UNCHANGED <<variables, output, declared>>

\* A line with := that ends with ; goes to handleConstant.
ConstantLine ==
  /\ pc = "loop" /\ lines # <<>>
  /\ IsConstantLine(CurLine)
  /\ \E r \in {handleConstant(variables, CurLine)} :
         IF r.err # Nil
         THEN Abort(r.err) /\ UNCHANGED <<variables, declared>>
         ELSE /\ variables' = r.variables
              /\ declared' = [n \in (DOMAIN declared) \cup {DeclName(CurLine)} |->
                                IF n = DeclName(CurLine) THEN DeclValue(CurLine)
                                ELSE declared[n]]
              /\ Continue
              /\ output' = output

\* A [...] line: an anonymous array is resolved and stored, a section header is
\* written to the buffer.
BracketLine ==
  /\ pc = "loop" /\ lines # <<>>
  /\ IsBracketLine(CurLine)
  /\ IF IsAnonymousArrayLine(CurLine)
     THEN \E r \in {resolveElements(variables, Split(Inner(CurLine), COMMA), <<>>)} :
              IF r.err # Nil
              THEN Abort(r.err) /\ UNCHANGED <<variables, declared>>
              ELSE /\ variables' = Put(variables,
                                       ArrayName(Cardinality(DOMAIN variables)),
                                       ArrV(r.val))
                   /\ Continue
                   /\ UNCHANGED <<output, declared>>
     ELSE /\ output' = writeSection(output, Inner(CurLine))
          /\ Continue
          /\ UNCHANGED <<variables, declared>>

\* A line with = and without := goes to handleKeyValue.
KeyValueLine ==
  /\ pc = "loop" /\ lines # <<>>
  /\ IsKeyValueLine(CurLine)
  /\ \E r \in {handleKeyValue(variables, output, CurLine)} :
         IF r.err # Nil
         THEN Abort(r.err) /\ UNCHANGED <<variables, declared>>
         ELSE /\ output' = r.output
              /\ Continue
              /\ UNCHANGED <<variables, declared>>

\* A line no condition of the loop body matches: the body falls through.
DropLine ==
  /\ pc = "loop" /\ lines # <<>>
  /\ IsDroppedLine(CurLine)
  /\ Continue
  /\ UNCHANGED <<variables, output, declared>>

\* After the loop: os.WriteFile(outputPath, output) and return nil.
WriteOutput ==
  /\ pc = "loop" /\ lines = <<>>
  /\ file' = Written(output)
  /\ err' = Nil
  /\ pc' = "idle"
  /\ results' = results \cup {[input |-> input, err |-> Nil, file |-> file']}
  /\ UNCHANGED <<variables, pending, input, content, lines, output, declared>>

Next ==
  \/ NewParser
  \/ ParseBegin
  \/ SkipLine
  \/ ConstantLine
  \/ BracketLine
  \/ KeyValueLine
  \/ DropLine
  \/ WriteOutput

\* One iteration of the loop of Parse as a function of the symbol table, the
\* buffer and the raw line: [err, variables, output].
loopBody(vs, out, raw) ==
  LET line == TrimSpace(raw)
  IN  IF IsConstantLine(line)
        THEN LET r == handleConstant(vs, line)
             IN  [err |-> r.err, variables |-> r.variables, output |-> out]
      ELSE IF IsAnonymousArrayLine(line)
        THEN LET r == resolveElements(vs, Split(Inner(line), COMMA), <<>>)
             IN  IF r.err # Nil THEN [err |-> r.err, variables |-> vs, output |-> out]
                 ELSE [err |-> Nil,
                       variables |-> Put(vs, ArrayName(Cardinality(DOMAIN vs)), ArrV(r.val)),
                       output |-> out]
      ELSE IF IsSectionLine(line)
        THEN [err |-> Nil, variables |-> vs, output |-> writeSection(out, Inner(line))]
      ELSE IF IsKeyValueLine(line)
        THEN LET r == handleKeyValue(vs, out, line)
             IN  [err |-> r.err, variables |-> vs, output |-> r.output]
      ELSE [err |-> Nil, variables |-> vs, output |-> out]

\* The loop of Parse and the write after it, run on the lines ls from the symbol
\* table vs and the buffer out: [err, file], what Parse returns and the file it
\* leaves.
RECURSIVE parseLines(_, _, _)
parseLines(vs, out, ls) ==
  IF ls = <<>> THEN [err |-> Nil, file |-> Written(out)]
  ELSE LET r == loopBody(vs, out, Head(ls))
       IN  IF r.err # Nil THEN [err |-> r.err, file |-> Unwritten]
           ELSE parseLines(r.variables, r.output, Tail(ls))

(***************************************************************************)
(* Input texts                                                             *)
(***************************************************************************)

\* The texts of at most n lines taken from pool.
Texts(pool, n) ==
  {Join(ls, NEWLINE) : ls \in UNION {[1..k -> pool] : k \in 0..n}}

\* The state after NewParser(), with the texts the caller will hand to Parse.
InitWith(calls) ==
  /\ variables = EmptyMap
  /\ pc = "idle"
  /\ pending \in calls
  /\ input = <<>>
  /\ content = <<>>
  /\ lines = <<>>
  /\ output = <<>>
  /\ file = Unwritten
  /\ err = "none"
  /\ declared = EmptyMap
  /\ results = {}

\* At most c Parse calls, each on a text of at most n lines of pool.
SomeCalls(pool, n, c) == UNION {[1..k -> Texts(pool, n)] : k \in 1..c}

\* One Parse call on a text of at most n lines of pool.
OneCall(pool, n) == {<<t>> : t \in Texts(pool, n)}

MaxLines == 3

\* Lines of the inputs.
LnBlank == <<" ">>
LnComment == <<"/", "/", " ", "c">>
LnJunk == <<"x">>
LnSection == <<"[", "s", "]">>
LnAnon == <<"[", "1", ",", " ", "2", "]">>
LnOpen == <<"{", "-">>
LnClose == <<"-", "}">>
LnDeclA42 == <<"A", " ", ":", "=", " ", "4", "2", ";">>
LnKeyA == <<"k", " ", "=", " ", "A">>
LnKey1 == <<"k", " ", "=", " ", "1">>

(***************************************************************************)
(* Spec: one Parse call on a text with every kind of line.                 *)
(***************************************************************************)

PoolMain ==
  {LnBlank, LnComment, LnJunk, LnSection, LnAnon, LnOpen, LnClose, LnDeclA42, LnKeyA}

Init == InitWith(OneCall(PoolMain, MaxLines))

Spec == Init /\ [][Next]_vars

\* The lines of a text, trimmed.
TrimmedLines(text) ==
  LET ls == Split(text, NEWLINE) IN [i \in 1..Len(ls) |-> TrimSpace(ls[i])]

IsEmittingLine(line) == IsSectionLine(line) \/ IsKeyValueLine(line)

\* The key of a key-value line: the text before its first =.
KeyOf(line) == TrimSpace(SubSeq(line, 1, Index(line, EQ) - 1))

\* C2: when Parse succeeds, the file holds one line per section-header line
\* ([name]) and per key-value line (key = ...) of the input, in the input's order;
\* every other line (declaration, blank, // comment, block comment, anonymous
\* array, unclassifiable) adds no line and moves none.
C2_OutputInInputOrder ==
  (pc = "idle" /\ err = Nil) =>
    LET emitting == SelectSeq(TrimmedLines(content), IsEmittingLine)
        written == Split(file.data, NEWLINE)
    IN  /\ file.written
        /\ Len(written) = Len(emitting) + 1
        /\ written[Len(written)] = <<>>
        /\ \A i \in 1..Len(emitting) :
             IF IsSectionLine(emitting[i])
             THEN written[i] = LBRACKET \o Inner(emitting[i]) \o RBRACKET
             ELSE HasPrefix(written[i], KeyOf(emitting[i]) \o <<" ", "=", " ">>)

\* A successful call whose input was a declaration, a section header and a
\* key-value line: the file is the header, then the key-value line.
C2_Witness ==
  /\ pc = "idle" /\ err = Nil
  /\ Len(TrimmedLines(content)) = 3
  /\ file.data = <<"[", "s", "]", "\n", "k", " ", "=", " ", "4", "2", "\n">>

(***************************************************************************)
(* SpecErrors: one Parse call on texts with failing declarations.          *)
(***************************************************************************)

LnDeclLower == <<"a", " ", ":", "=", " ", "1", ";">>
LnDeclTwice == <<"A", " ", ":", "=", " ", ":", "=", " ", "1", ";">>
LnDeclBadOp == <<"A", " ", ":", "=", " ", "?", "(", "*", " ", "1", " ", "2", ")", ";">>
LnDeclOrdEmpty == <<"A", " ", ":", "=", " ", "?", "(", "o", "r", "d", " ", "@", "\"", "\"", ")", ";">>
LnDeclText == <<"S", " ", ":", "=", " ", "@", "\"", "t", "\"", ";">>
LnDeclAbsS == <<"A", " ", ":", "=", " ", "?", "(", "a", "b", "s", " ", "S", ")", ";">>

PoolErrors ==
  {LnSection, LnKey1, LnJunk, LnDeclLower, LnDeclTwice, LnDeclBadOp, LnDeclOrdEmpty,
   LnDeclText, LnDeclAbsS}

InitErrors == InitWith(OneCall(PoolErrors, MaxLines))

SpecErrors == InitErrors /\ [][Next]_vars

\* The errors of a failing line (not those of the file system).
ParseErrors ==
  {ErrInvalidSyntax, ErrInvalidExpression, ErrInvalidName, ErrUnknownOperation,
   ErrNotANumber, ErrNotAString, ErrUnsupportedType, ErrOrdEmpty, ErrStrconv}

Failed == pc = "idle" /\ err \in ParseErrors

\* C1: when Parse returns an error the output file is not written, the failing
\* line and the lines after it stay unprocessed, and what was buffered before the
\* failing line never reaches the file.
C1_ErrorWritesNothing ==
  /\ [](Failed => (file = Unwritten /\ lines # <<>>))
  /\ [][Failed => (Failed' /\ file' = file /\ lines' = lines /\ output' = output)]_vars

\* A failed call that had buffered output before the failing line and leaves a
\* later line unprocessed.
C1_Witness ==
  /\ Failed
  /\ output # <<>>
  /\ Len(lines) >= 2
  /\ file = Unwritten

(***************************************************************************)
(* SpecNames: one Parse call on declarations with valid and invalid names. *)
(***************************************************************************)

LnDeclUnderR == <<"_", "R", " ", ":", "=", " ", "1", ";">>
LnDeclNoName == <<" ", ":", "=", " ", "1", ";">>
LnDeclLowerText == <<"a", " ", ":", "=", " ", "@", "\"", "s", "\"", ";">>
LnDeclAtArray == <<"A", "@", " ", ":", "=", " ", "[", "1", "]", ";">>
LnDeclBracketExpr ==
  <<"Z", "[", " ", ":", "=", " ", "?", "(", "+", " ", "1", " ", "1", ")", ";">>
LnDeclDigit == <<"A", "1", " ", ":", "=", " ", "A", ";">>
LnKeyR == <<"k", " ", "=", " ", "_", "R">>

PoolNames ==
  {LnDeclUnderR, LnDeclNoName, LnDeclLowerText, LnDeclAtArray, LnDeclBracketExpr,
   LnDeclDigit, LnSection, LnKeyR, LnJunk}

InitNames == InitWith(OneCall(PoolNames, MaxLines))

SpecNames == InitNames /\ [][Next]_vars

UpperOrUnderscore ==
  {"A", "B", "C", "D", "E", "F", "G", "H", "I", "J", "K", "L", "M", "N", "O", "P", "Q",
   "R", "S", "T", "U", "V", "W", "X", "Y", "Z", "_"}

\* ^[A-Z_]+$
MatchesNameRule(s) == s # <<>> /\ \A i \in 1..Len(s) : s[i] \in UpperOrUnderscore

\* NAME of a line NAME := VALUE; : the text before the first :=, trimmed.
NameOf(line) == TrimSpace(SubSeq(line, 1, Index(line, ASSIGN) - 1))

\* C4: a declaration whose NAME is empty or has a byte other than A-Z and _ makes
\* Parse return an error and binds nothing, whatever its VALUE; a NAME of A-Z and
\* _ only (a leading _ included) is not rejected as a name.
C4_NameRule ==
  [][(pc = "loop" /\ lines # <<>> /\ IsConstantLine(CurLine)) =>
       IF MatchesNameRule(NameOf(CurLine))
       THEN err' # ErrInvalidName
       ELSE /\ pc' = "idle"
            /\ err' \in ParseErrors
            /\ variables' = variables]_vars

\* _R was accepted and bound, and a later declaration was rejected for its name
\* without touching the binding.
C4_Witness ==
  /\ err = ErrInvalidName
  /\ DOMAIN variables = {<<"_", "R">>}
  /\ variables[<<"_", "R">>] = IntV(1)

(***************************************************************************)
(* SpecRebind: one Parse call on texts that declare VALUE again and again  *)
(* and refer to it.                                                        *)
(***************************************************************************)

LnDeclValue42 == <<"V", "A", "L", "U", "E", " ", ":", "=", " ", "4", "2", ";">>
LnDeclValue7 == <<"V", "A", "L", "U", "E", " ", ":", "=", " ", "7", ";">>
LnDeclValueText == <<"V", "A", "L", "U", "E", " ", ":", "=", " ", "@", "\"", "x", "\"", ";">>
LnKeyValue == <<"k", "e", "y", " ", "=", " ", "V", "A", "L", "U", "E">>

PoolRebind ==
  {LnDeclValue42, LnDeclValue7, LnDeclValueText, LnKeyValue, LnSection, LnAnon, LnJunk}

InitRebind == InitWith(OneCall(PoolRebind, MaxLines))

SpecRebind == InitRebind /\ [][Next]_vars

DigitSet == {"0", "1", "2", "3", "4", "5", "6", "7", "8", "9"}

\* A decimal numeral as %d prints it: digits only, no leading zero.
IsPlainDecimal(v) ==
  /\ v # <<>>
  /\ \A i \in 1..Len(v) : v[i] \in DigitSet
  /\ Len(v) = 1 \/ v[1] # "0"

\* @"...", with no quotation mark inside.
IsPlainQuoted(v) ==
  /\ Len(v) >= 3
  /\ v[1] = "@" /\ v[2] = "\"" /\ v[Len(v)] = "\""
  /\ \A i \in 3..(Len(v) - 1) : v[i] # "\""

IsPlainLiteral(v) == IsPlainDecimal(v) \/ IsPlainQuoted(v)

\* The TOML text of a plain literal: the numeral itself, the string in double
\* quotes (true and false bare).
TomlOfLiteral(v) ==
  IF IsPlainDecimal(v) THEN v
  ELSE LET str == SubSeq(v, 3, Len(v) - 1)
       IN  IF str \in {TRUETEXT, FALSETEXT} THEN str ELSE QUOTE \o str \o QUOTE

\* The right-hand side of a key-value line: the text after its first =.
RhsOf(line) == TrimSpace(SubSeq(line, Index(line, EQ) + 1, Len(line)))

\* C3: a declaration of a valid name N by a literal succeeds whether or not N is
\* bound already, and a later line k = N emits k = <the literal of the latest
\* declaration of N> (VALUE := 42; then key = VALUE emits key = 42).
C3_LastDeclarationWins ==
  [][/\ (/\ pc = "loop" /\ lines # <<>> /\ IsConstantLine(CurLine)
         /\ Len(Split(CurLine, ASSIGN)) = 2
         /\ MatchesNameRule(NameOf(CurLine))
         /\ IsPlainLiteral(DeclValue(CurLine)))
        => (pc' = "loop" /\ declared'[NameOf(CurLine)] = DeclValue(CurLine))
     /\ (/\ pc = "loop" /\ lines # <<>> /\ IsKeyValueLine(CurLine)
         /\ MatchesNameRule(RhsOf(CurLine))
         /\ RhsOf(CurLine) \in DOMAIN declared
         /\ IsPlainLiteral(declared[RhsOf(CurLine)]))
        => (/\ pc' = "loop"
            /\ output' = output \o KeyOf(CurLine) \o <<" ", "=", " ">>
                           \o TomlOfLiteral(declared[RhsOf(CurLine)]) \o NEWLINE)]_vars

\* VALUE := 42; VALUE := 7; key = VALUE was parsed: the file is key = 7.
C3_Witness ==
  /\ pc = "idle" /\ err = Nil
  /\ TrimmedLines(content) = <<LnDeclValue42, LnDeclValue7, LnKeyValue>>
  /\ file.data = <<"k", "e", "y", " ", "=", " ", "7", "\n">>

(***************************************************************************)
(* SpecAlias: one Parse call on texts that bind B to A and declare A       *)
(* before and after.                                                       *)
(***************************************************************************)

MaxAliasLines == 4

LnDeclA1 == <<"A", " ", ":", "=", " ", "1", ";">>
LnDeclA2 == <<"A", " ", ":", "=", " ", "2", ";">>
LnDeclBA == <<"B", " ", ":", "=", " ", "A", ";">>
LnKeyB == <<"k", " ", "=", " ", "B">>

PoolAlias == {LnDeclA1, LnDeclA2, LnDeclBA, LnKeyB, LnSection, LnJunk}

InitAlias == InitWith(OneCall(PoolAlias, MaxAliasLines))

SpecAlias == InitAlias /\ [][Next]_vars

\* C10: B := A; copies the value A holds at that moment, or binds the text A
\* when A is unbound; no declaration changes the binding of another name; and
\* k = B emits what B holds (a number as it is, a text that is a name in
\* quotes) without looking that text up again.
C10_AliasIsACopy ==
  [][/\ (/\ pc = "loop" /\ lines # <<>> /\ IsConstantLine(CurLine)
         /\ Len(Split(CurLine, ASSIGN)) = 2
         /\ MatchesNameRule(NameOf(CurLine))
         /\ MatchesNameRule(DeclValue(CurLine)))
        => /\ pc' = "loop"
           /\ variables'[NameOf(CurLine)] =
                IF DeclValue(CurLine) \in DOMAIN variables
                THEN variables[DeclValue(CurLine)]
                ELSE StrV(DeclValue(CurLine))
     /\ (pc = "loop" /\ lines # <<>> /\ IsConstantLine(CurLine))
        => \A n \in DOMAIN variables :
             n # NameOf(CurLine) => (n \in DOMAIN variables' /\ variables'[n] = variables[n])
     /\ (/\ pc = "loop" /\ lines # <<>> /\ IsKeyValueLine(CurLine)
         /\ RhsOf(CurLine) \in DOMAIN variables)
        => LET held == variables[RhsOf(CurLine)]
           IN  /\ held.t = "int" =>
                    output' = output \o KeyOf(CurLine) \o <<" ", "=", " ">>
                                \o Itoa(held.n) \o NEWLINE
               /\ (held.t = "string" /\ MatchesNameRule(held.s)) =>
                    output' = output \o KeyOf(CurLine) \o <<" ", "=", " ">>
                                \o QUOTE \o held.s \o QUOTE \o NEWLINE]_vars

\* A := 1; B := A; A := 2; k = B was parsed: B still holds 1 and the file is
\* k = 1.
C10_Witness ==
  /\ pc = "idle" /\ err = Nil
  /\ TrimmedLines(content) = <<LnDeclA1, LnDeclBA, LnDeclA2, LnKeyB>>
  /\ variables = (<<"A">> :> IntV(2)) @@ (<<"B">> :> IntV(1))
  /\ file.data = <<"k", " ", "=", " ", "1", "\n">>

(***************************************************************************)
(* SpecComment: one Parse call on texts with block comment markers.        *)
(***************************************************************************)

LnClosed == <<"{", "-", " ", "c", " ", "-", "}">>

PoolComment == {LnOpen, LnClose, LnClosed, LnKey1, LnDeclA42, LnSection}

InitComment == InitWith(OneCall(PoolComment, MaxLines))

SpecComment == InitComment /\ [][Next]_vars

\* A {- at position i of text that no -} follows.
UnterminatedAt(text, i) ==
  /\ i + 1 <= Len(text)
  /\ SubSeq(text, i, i + 1) = COMMENTOPEN
  /\ \A j \in (i + 1)..(Len(text) - 1) : SubSeq(text, j, j + 1) # COMMENTCLOSE

HasUnterminated(text) == \E i \in 1..Len(text) : UnterminatedAt(text, i)

\* The position of the first {- of text that no -} follows.
FirstUnterminated(text) ==
  CHOOSE i \in 1..Len(text) :
    UnterminatedAt(text, i) /\ \A j \in 1..(i - 1) : ~UnterminatedAt(text, j)

\* The text before its first unterminated {-, and the text from there on.
BeforeUnterminated(text) == SubSeq(text, 1, FirstUnterminated(text) - 1)
FromUnterminated(text) == SubSeq(text, FirstUnterminated(text), Len(text))

\* Parse has read its input.
HasRead == err # "none"

\* C8 as stated: everything from a {- that no -} follows to the end of the input
\* is removed before the lines are processed.
C8_UnterminatedRemoved ==
  (HasRead /\ HasUnterminated(input)) =>
    content = removeMultilineComments(BeforeUnterminated(input))

\* C8 amended: a {- that no -} follows is not a comment: the text from it to the
\* end of the input stays in place (only the closed comments before it are
\* removed), and its lines are processed like any others.
C8_UnterminatedKept ==
  (HasRead /\ HasUnterminated(input)) =>
    /\ content = removeMultilineComments(BeforeUnterminated(input))
                   \o FromUnterminated(input)
    /\ (pc = "idle" /\ err = Nil) =>
         Len(Split(file.data, NEWLINE)) =
           Len(SelectSeq(TrimmedLines(content), IsEmittingLine)) + 1

\* A closed comment, then {- with no -} after it, then k = 1: the comment is
\* gone, the marker stayed, and the line after it reached the file.
C8_Witness ==
  /\ pc = "idle" /\ err = Nil
  /\ input = LnClosed \o NEWLINE \o LnOpen \o NEWLINE \o LnKey1
  /\ content = NEWLINE \o LnOpen \o NEWLINE \o LnKey1
  /\ file.data = <<"k", " ", "=", " ", "1", "\n">>

(***************************************************************************)
(* SpecOrd: one Parse call on texts that declare S and take ord of it and  *)
(* of literal tokens.                                                      *)
(***************************************************************************)

MaxOrdLines == 2

LnDeclSText == <<"S", " ", ":", "=", " ", "@", "\"", "a", "\"", ";">>
LnDeclSInt == <<"S", " ", ":", "=", " ", "5", ";">>
LnDeclSArray == <<"S", " ", ":", "=", " ", "[", "1", "]", ";">>
LnDeclSEmpty == <<"S", " ", ":", "=", " ", "@", "\"", "\"", ";">>
LnDeclSQuoted == <<"S", " ", ":", "=", " ", "@", "\"", "\"", "q", "\"", "\"", ";">>
LnOrdS == <<"X", " ", ":", "=", " ", "?", "(", "o", "r", "d", " ", "S", ")", ";">>
LnOrdLiteral ==
  <<"X", " ", ":", "=", " ", "?", "(", "o", "r", "d", " ", "@", "\"", "b", "\"", ")", ";">>
LnOrdEmptyLiteral ==
  <<"X", " ", ":", "=", " ", "?", "(", "o", "r", "d", " ", "@", "\"", "\"", ")", ";">>
LnOrdQuotedZ ==
  <<"X", " ", ":", "=", " ", "?", "(", "o", "r", "d", " ", "\"", "Z", "\"", ")", ";">>
LnOrdRaw == <<"X", " ", ":", "=", " ", "?", "(", "o", "r", "d", " ", "c", ")", ";">>
LnOrdQuotes ==
  <<"X", " ", ":", "=", " ", "?", "(", "o", "r", "d", " ", "\"", "\"", ")", ";">>
LnOrdAtQuote == <<"X", " ", ":", "=", " ", "?", "(", "o", "r", "d", " ", "@", "\"", ")", ";">>
LnKeyX == <<"k", " ", "=", " ", "X">>

PoolOrd ==
  {LnDeclSText, LnDeclSInt, LnDeclSArray, LnDeclSEmpty, LnDeclSQuoted, LnOrdS,
   LnOrdLiteral, LnOrdEmptyLiteral, LnOrdQuotedZ, LnOrdRaw, LnOrdQuotes, LnOrdAtQuote,
   LnKeyX, LnSection, LnJunk}

InitOrd == InitWith(OneCall(PoolOrd, MaxOrdLines))

SpecOrd == InitOrd /\ [][Next]_vars

\* The tokens of the expression of a declaration NAME := ?(...); .
ExprTokens(line) == Fields(TrimSuffix(TrimPrefix(DeclValue(line), EXPROPEN), RPAREN))

\* The loop is at a declaration NAME := ?(...); with a valid NAME.
AtExpression ==
  /\ pc = "loop" /\ lines # <<>> /\ IsConstantLine(CurLine)
  /\ Len(Split(TrimSuffix(CurLine, SEMI), ASSIGN)) = 2
  /\ MatchesNameRule(NameOf(CurLine))
  /\ HasPrefix(DeclValue(CurLine), EXPROPEN) /\ HasSuffix(DeclValue(CurLine), RPAREN)

\* The loop is at a declaration NAME := ?(ord S); .
AtOrd ==
  /\ AtExpression
  /\ Len(ExprTokens(CurLine)) = 2
  /\ ExprTokens(CurLine)[1] = <<"o", "r", "d">>

\* The text an ord operand stands for: the value of the Text variable it names,
\* what is between @" and the closing " of a token that starts with @" and ends
\* with " (nothing, when the token is @" alone), or else the token itself.
OperandText(vs, token) ==
  IF token \in DOMAIN vs THEN vs[token].s
  ELSE IF Len(token) >= 2 /\ token[1] = "@" /\ token[2] = "\"" /\ token[Len(token)] = "\""
    THEN SubSeq(token, 3, Len(token) - 1)
  ELSE token

\* The declaration fails and binds nothing.
DeclarationFails == pc' = "idle" /\ err' \in ParseErrors /\ variables' = variables

\* The declaration binds its NAME to the integer n.
DeclarationBinds(n) ==
  /\ pc' = "loop"
  /\ NameOf(CurLine) \in DOMAIN variables'
  /\ variables'[NameOf(CurLine)] = IntV(n)

\* C9 as stated: ord of a variable holding an Integer or an Array fails; ord of
\* an empty text fails; ord of any other text is the code of its first character.
C9_OrdFirstCharacter ==
  [][AtOrd =>
       LET token == ExprTokens(CurLine)[2]
       IN  IF token \in DOMAIN variables /\ variables[token].t # "string"
           THEN DeclarationFails
           ELSE IF OperandText(variables, token) = <<>>
           THEN DeclarationFails
           ELSE DeclarationBinds(Code(OperandText(variables, token)[1]))]_vars

\* A text without the pair of double quotes around it, if it has one (a lone
\* double quote counts as such a pair).
Unquoted(text) ==
  IF text # <<>> /\ text[1] = "\"" /\ text[Len(text)] = "\""
  THEN (IF Len(text) <= 2 THEN <<>> ELSE SubSeq(text, 2, Len(text) - 1))
  ELSE text

\* C9 amended: ord of a variable holding an Integer or an Array fails; ord of a
\* text that is empty, or empty once a pair of double quotes around it is taken
\* off, fails; ord of any other text is the value of the first byte of the text
\* with such a pair of double quotes taken off.
C9_OrdFirstByteUnquoted ==
  [][AtOrd =>
       LET token == ExprTokens(CurLine)[2]
       IN  IF token \in DOMAIN variables /\ variables[token].t # "string"
           THEN DeclarationFails
           ELSE IF Unquoted(OperandText(variables, token)) = <<>>
           THEN DeclarationFails
           ELSE DeclarationBinds(Code(Unquoted(OperandText(variables, token))[1]))]_vars

\* X := ?(ord "Z"); bound X to 90, the code of Z.
C9_Witness ==
  /\ pc = "idle" /\ err = Nil
  /\ TrimmedLines(content) = <<LnOrdQuotedZ>>
  /\ variables = (<<"X">> :> IntV(90))

(***************************************************************************)
(* SpecExpr: one Parse call on texts whose expressions refer to U, which   *)
(* is declared in some and not in others.                                  *)
(***************************************************************************)

LnDeclU == <<"U", " ", ":", "=", " ", "1", ";">>
LnAddU == <<"X", " ", ":", "=", " ", "?", "(", "+", " ", "U", " ", "1", ")", ";">>
LnSubU == <<"X", " ", ":", "=", " ", "?", "(", "-", " ", "1", " ", "U", ")", ";">>
LnAbsU == <<"X", " ", ":", "=", " ", "?", "(", "a", "b", "s", " ", "U", ")", ";">>
LnOrdU == <<"X", " ", ":", "=", " ", "?", "(", "o", "r", "d", " ", "U", ")", ";">>

PoolExpr == {LnDeclU, LnAddU, LnSubU, LnAbsU, LnOrdU, LnKeyX, LnSection, LnJunk}

InitExpr == InitWith(OneCall(PoolExpr, MaxLines))

SpecExpr == InitExpr /\ [][Next]_vars

\* An operand of the expression is the name of a variable that is not bound.
UnboundOperand ==
  \E i \in 2..Len(ExprTokens(CurLine)) :
    /\ MatchesNameRule(ExprTokens(CurLine)[i])
    /\ ExprTokens(CurLine)[i] \notin DOMAIN variables

\* C7: an expression with an operand that names an unbound variable fails, in
\* numeric context (+, -, abs) and in string context (ord), and its declaration
\* binds nothing.
C7_UnboundOperandFails ==
  [][(AtExpression /\ UnboundOperand) => DeclarationFails]_vars

(***************************************************************************)
(* SpecAnon: one Parse call on texts with anonymous arrays and a reference *)
(* to the name the first of them is stored under.                          *)
(***************************************************************************)

LnKeyArray0 == <<"k", " ", "=", " ", "_", "a", "r", "r", "a", "y", "_", "0">>

PoolAnon == {LnAnon, LnKeyArray0, LnDeclA42, LnJunk}

InitAnon == InitWith(OneCall(PoolAnon, MaxLines))

SpecAnon == InitAnon /\ [][Next]_vars

NotAnonymousArray(raw) == ~IsAnonymousArrayLine(TrimSpace(raw))

\* The call of a fresh Parser returned what the loop and the write give on the
\* lines of its input (the state machine and parseLines agree).
ParseAgrees ==
  (pc = "idle" /\ HasRead) =>
    [err |-> err, file |-> file] = parseLines(EmptyMap, <<>>, Split(content, NEWLINE))

\* C6: an anonymous array line has no outward effect: Parse returns the same
\* and leaves the same file as on the input without its anonymous array lines.
C6_AnonymousArrayInert ==
  (pc = "idle" /\ HasRead) =>
    [err |-> err, file |-> file] =
      parseLines(EmptyMap, <<>>, SelectSeq(Split(content, NEWLINE), NotAnonymousArray))

(***************************************************************************)
(* SpecReuse: up to MaxCalls Parse calls, on one Parser or on fresh ones.  *)
(***************************************************************************)

MaxCalls == 2
MaxReuseLines == 2

PoolReuse == {LnKeyA, LnDeclA42, LnSection, LnJunk}

InitReuse == InitWith(SomeCalls(PoolReuse, MaxReuseLines, MaxCalls))

SpecReuse == InitReuse /\ [][Next]_vars

\* C5: identical input gives the identical result (the same error, the same
\* bytes in the file), whichever Parser is used and whatever it parsed before.
C5_Deterministic ==
  \A p \in results : \A q \in results : p.input = q.input => p = q

=============================================================================
